---- MODULE Spec2Model ----
(***************************************************************************)
(* A model of opusmeta (src/src/lib.rs, src/src/picture.rs): the Opus      *)
(* comment header codec, the picture block codec, the in-memory Tag map    *)
(* and the read_from / write_to operations over a packet container.        *)
(*                                                                         *)
(* Strings and byte vectors are sequences of bytes (0..255); a Rust String *)
(* is the sequence of its UTF-8 bytes, so len() is the byte length.        *)
(* Rust's 0-based indices are 1-based here.                                *)
(***************************************************************************)
EXTENDS Integers, Sequences, FiniteSets, TLC

VARIABLES
    tag,    \* the Tag object: [vendor, comments]
    last,   \* the last operation called, its arguments and what it returned
    file,   \* the target stream: [packets, stale]
    rd,     \* write_to: the number of packets its PacketReader has yielded
    out,    \* write_to: the packets written to the in-memory cursor
    pc      \* idle, the position inside write_to, done, failed or panicked

vars == <<tag, last, file, rd, out, pc>>

(***************************************************************************)
(* Bounds of the model.                                                    *)
(***************************************************************************)
\* the most comment values a Tag holds in the tag-store specification
MaxEntries == 2
\* the most pairs handed to Tag::new in the tag-store specification
MaxNewPairs == 2
\* the most values handed to add_many
MaxAddMany == 2
\* the most comment entries of a generated comment header
MaxHeaderEntries == 2
\* the most packets of a generated container
MaxPackets == 3

(***************************************************************************)
(* Byte-level helpers.                                                     *)
(***************************************************************************)

\* u32::to_le_bytes
to_le_bytes(n) ==
    <<n % 256, (n \div 256) % 256, (n \div 65536) % 256, (n \div 16777216) % 256>>

\* u32::from_le_bytes
from_le_bytes(b) == b[1] + 256 * b[2] + 65536 * b[3] + 16777216 * b[4]

\* u32::to_be_bytes
to_be_bytes(n) ==
    <<(n \div 16777216) % 256, (n \div 65536) % 256, (n \div 256) % 256, n % 256>>

\* u32::from_be_bytes
from_be_bytes(b) == 16777216 * b[1] + 65536 * b[2] + 256 * b[3] + b[4]

\* <[u8]>::starts_with
starts_with(data, prefix) ==
    /\ Len(data) >= Len(prefix)
    /\ SubSeq(data, 1, Len(prefix)) = prefix

\* mutant: the key is used as it is given
make_ascii_lowercase_skipped(s) == s

\* str::make_ascii_lowercase: only the bytes 'A'..'Z' change
make_ascii_lowercase(s) ==
    [i \in 1..Len(s) |-> IF s[i] \in 65..90 THEN s[i] + 32 ELSE s[i]]

\* the validity check of String::from_utf8, from position i of b
RECURSIVE Utf8From(_, _)
Utf8From(b, i) ==
    LET n == Len(b)
        c == b[i]
        Cont(j, lo, hi) == j <= n /\ b[j] >= lo /\ b[j] <= hi
    IN  IF i > n THEN TRUE
        ELSE IF c < 128 THEN Utf8From(b, i + 1)
        ELSE IF c \in 194..223 THEN Cont(i + 1, 128, 191) /\ Utf8From(b, i + 2)
        ELSE IF c = 224 THEN
            Cont(i + 1, 160, 191) /\ Cont(i + 2, 128, 191) /\ Utf8From(b, i + 3)
        ELSE IF c \in (225..236) \cup {238, 239} THEN
            Cont(i + 1, 128, 191) /\ Cont(i + 2, 128, 191) /\ Utf8From(b, i + 3)
        ELSE IF c = 237 THEN
            Cont(i + 1, 128, 159) /\ Cont(i + 2, 128, 191) /\ Utf8From(b, i + 3)
        ELSE IF c = 240 THEN
            /\ Cont(i + 1, 144, 191) /\ Cont(i + 2, 128, 191)
            /\ Cont(i + 3, 128, 191) /\ Utf8From(b, i + 4)
        ELSE IF c \in 241..243 THEN
            /\ Cont(i + 1, 128, 191) /\ Cont(i + 2, 128, 191)
            /\ Cont(i + 3, 128, 191) /\ Utf8From(b, i + 4)
        ELSE IF c = 244 THEN
            /\ Cont(i + 1, 128, 143) /\ Cont(i + 2, 128, 191)
            /\ Cont(i + 3, 128, 191) /\ Utf8From(b, i + 4)
        ELSE FALSE

\* String::from_utf8(b).is_ok()
from_utf8_ok(b) == Utf8From(b, 1)

\* mutant: a string without '=' is taken as a key with an empty value
find_eq_lenient(s) ==
    IF \E i \in 1..Len(s) : s[i] = 61
    THEN CHOOSE i \in 1..Len(s) : s[i] = 61 /\ \A j \in 1..(i - 1) : s[j] # 61
    ELSE Len(s) + 1

\* the position of the first '=' of s, 0 when there is none (str::split_once)
find_eq(s) ==
    IF \E i \in 1..Len(s) : s[i] = 61
    THEN CHOOSE i \in 1..Len(s) : s[i] = 61 /\ \A j \in 1..(i - 1) : s[j] # 61
    ELSE 0

\* the literals of the source
OpusHead == <<79, 112, 117, 115, 72, 101, 97, 100>>
OpusTags == <<79, 112, 117, 115, 84, 97, 103, 115>>
\* "METADATA_BLOCK_PICTURE", the key add_picture inserts under
KeyPictureUpper ==
    <<77, 69, 84, 65, 68, 65, 84, 65, 95, 66, 76, 79, 67, 75, 95,
      80, 73, 67, 84, 85, 82, 69>>
\* "metadata_block_picture", the key the picture scans look up
KeyPictureLower ==
    <<109, 101, 116, 97, 100, 97, 116, 97, 95, 98, 108, 111, 99, 107, 95,
      112, 105, 99, 116, 117, 114, 101>>

(***************************************************************************)
(* Picture codec (picture.rs).                                             *)
(***************************************************************************)

\* the character of a 6-bit value in the standard base64 alphabet
b64_char(v) ==
    IF v < 26 THEN 65 + v
    ELSE IF v < 52 THEN 97 + (v - 26)
    ELSE IF v < 62 THEN 48 + (v - 52)
    ELSE IF v = 62 THEN 43 ELSE 47

\* the 6-bit value of a character of the standard alphabet, -1 for any other
b64_value(c) ==
    IF c \in 65..90 THEN c - 65
    ELSE IF c \in 97..122 THEN c - 71
    ELSE IF c \in 48..57 THEN c + 4
    ELSE IF c = 43 THEN 62
    ELSE IF c = 47 THEN 63 ELSE -1

\* BASE64_STANDARD.encode: 3 bytes to 4 characters, padded with '='
b64_encode(bytes) ==
    LET n == Len(bytes)
        B(k) == IF k <= n THEN bytes[k] ELSE 0
    IN  [i \in 1..(4 * ((n + 2) \div 3)) |->
            LET g == (i - 1) \div 4
                j == (i - 1) % 4
                b0 == B(3 * g + 1)
                b1 == B(3 * g + 2)
                b2 == B(3 * g + 3)
            IN  IF j = 0 THEN b64_char(b0 \div 4)
                ELSE IF j = 1 THEN b64_char((b0 % 4) * 16 + b1 \div 16)
                ELSE IF j = 2 THEN
                    IF 3 * g + 2 > n THEN 61
                    ELSE b64_char((b1 % 16) * 4 + b2 \div 64)
                ELSE IF 3 * g + 3 > n THEN 61 ELSE b64_char(b2 % 64)]

\* the number of '=' that end s (at most 2 count as padding)
b64_padding(s) ==
    LET n == Len(s)
    IN  IF n >= 2 /\ s[n] = 61 /\ s[n - 1] = 61 THEN 2
        ELSE IF n >= 1 /\ s[n] = 61 THEN 1 ELSE 0

\* BASE64_STANDARD.decode(s).is_ok(): canonical padding is required, every
\* other character is of the alphabet, and the unused trailing bits are 0
b64_decode_ok(s) ==
    LET n == Len(s)
        pad == b64_padding(s)
    IN  /\ n % 4 = 0
        /\ \A i \in 1..(n - pad) : b64_value(s[i]) >= 0
        /\ pad = 2 => b64_value(s[n - 2]) % 16 = 0
        /\ pad = 1 => b64_value(s[n - 1]) % 4 = 0

\* the bytes BASE64_STANDARD.decode yields for a string it accepts
b64_decode(s) ==
    LET n == Len(s)
        pad == b64_padding(s)
        V(k) == IF k <= n - pad THEN b64_value(s[k]) ELSE 0
    IN  [i \in 1..(3 * (n \div 4) - pad) |->
            LET g == (i - 1) \div 3
                j == (i - 1) % 3
                v0 == V(4 * g + 1)
                v1 == V(4 * g + 2)
                v2 == V(4 * g + 3)
                v3 == V(4 * g + 4)
            IN  IF j = 0 THEN v0 * 4 + v1 \div 16
                ELSE IF j = 1 THEN (v1 % 16) * 16 + v2 \div 4
                ELSE (v2 % 4) * 64 + v3]

\* the longest mime type (in characters), description and data of a picture
\* that is encoded and decoded
MaxPictureField == 2

\* Picture::default(): PictureType::Other, empty strings, no data
NoPicture == [picture_type |-> 0, mime_type |-> <<>>, description |-> <<>>, data |-> <<>>]

\* mutant: the last picture type code is refused
from_u32_ok_below(num) == num < 20

\* PictureType::from_u32(num).is_ok()
from_u32_ok(num) == ~(num > 20)

\* Picture::to_bytes (the *TooLong errors need a field of more than u32::MAX
\* bytes, which no picture of the model has)
to_bytes(p) ==
    to_be_bytes(p.picture_type)
        \o to_be_bytes(Len(p.mime_type)) \o p.mime_type
        \o to_be_bytes(Len(p.description)) \o p.description
        \o [i \in 1..16 |-> 0]
        \o to_be_bytes(Len(p.data)) \o p.data

\* Picture::from_bytes: a cursor over data; read_exact fails when fewer bytes
\* are left than asked for. Each stage stands for the statements that follow
\* one length being read.
from_bytes(data) ==
    LET n == Len(data)
        Take(pos, k) == SubSeq(data, pos + 1, pos + k)
        U32(pos) == from_be_bytes(Take(pos, 4))
        Fail(e) == [ok |-> FALSE, err |-> e, pic |-> NoPicture]
        \* data: at offset p, data_length bytes
        ReadData(ptype, mime, desc, p, data_length) ==
            IF n < p + data_length THEN Fail("DataError")
            ELSE [ok |-> TRUE, err |-> "",
                  pic |-> [picture_type |-> ptype, mime_type |-> mime,
                           description |-> desc,
                           data |-> Take(p, data_length)]]
        \* description: at offset p, desc_length bytes; then seek_relative(16)
        \* moves past the geometry without looking at it
        ReadDescription(ptype, mime, p, desc_length) ==
            IF n < p + desc_length THEN Fail("DataError")
            ELSE IF ~from_utf8_ok(Take(p, desc_length)) THEN Fail("UTFError")
            ELSE IF n < p + desc_length + 16 + 4 THEN Fail("DataError")
            ELSE ReadData(ptype, mime, Take(p, desc_length),
                          p + desc_length + 20, U32(p + desc_length + 16))
        \* mime type: at offset 8, mime_length bytes
        ReadMime(ptype, mime_length) ==
            IF n < 8 + mime_length THEN Fail("DataError")
            ELSE IF ~from_utf8_ok(Take(8, mime_length)) THEN Fail("UTFError")
            ELSE IF n < 8 + mime_length + 4 THEN Fail("DataError")
            ELSE ReadDescription(ptype, Take(8, mime_length),
                                 8 + mime_length + 4, U32(8 + mime_length))
        \* picture type
        ReadType(ptype) ==
            IF ~from_u32_ok(ptype) THEN Fail("InvalidPictureType")
            ELSE IF n < 8 THEN Fail("DataError")
            ELSE ReadMime(ptype, U32(4))
    IN  IF n < 4 THEN Fail("DataError") ELSE ReadType(U32(0))

\* Picture::to_base64
to_base64(p) == b64_encode(to_bytes(p))

\* Picture::from_base64
from_base64(s) ==
    IF ~b64_decode_ok(s)
    THEN [ok |-> FALSE, err |-> "Base64DecodeError", pic |-> NoPicture]
    ELSE from_bytes(b64_decode(s))

(***************************************************************************)
(* Tag (lib.rs): vendor: String, comments: HashMap<String, Vec<String>>.   *)
(* The map is a function from the keys present to their value sequences.   *)
(***************************************************************************)

\* HashMap::new()
HashMapNew == [k \in {} |-> <<>>]

\* Tag::default()
TagDefault == [vendor |-> <<>>, comments |-> HashMapNew]

\* comments.entry(key).and_modify(|v| v.append(values)).or_insert(values)
entry_append(comments, key, values) ==
    IF key \in DOMAIN comments
    THEN [comments EXCEPT ![key] = @ \o values]
    ELSE (key :> values) @@ comments

\* the loop of Tag::new over the (key, value) pairs
RECURSIVE new_comments(_, _)
new_comments(comments_map, pairs) ==
    IF pairs = <<>> THEN comments_map
    ELSE new_comments(
             entry_append(comments_map, make_ascii_lowercase(Head(pairs)[1]),
                          <<Head(pairs)[2]>>),
             Tail(pairs))

\* Tag::new
new(vendor, pairs) ==
    [vendor |-> vendor, comments |-> new_comments(HashMapNew, pairs)]

\* Tag::add_one
add_one(t, key, value) ==
    [t EXCEPT !.comments = entry_append(@, make_ascii_lowercase(key), <<value>>)]

\* Tag::add_many
add_many(t, key, values) ==
    [t EXCEPT !.comments = entry_append(@, make_ascii_lowercase(key), values)]

\* Tag::get: Option<&Vec<String>>
get(t, key) ==
    LET k == make_ascii_lowercase(key)
    IN  IF k \in DOMAIN t.comments
        THEN [some |-> TRUE, vals |-> t.comments[k]]
        ELSE [some |-> FALSE, vals |-> <<>>]

\* HashMap::remove
map_remove(comments, k) == [x \in (DOMAIN comments) \ {k} |-> comments[x]]

\* Tag::remove_entries: the tag afterwards and the Option<Vec<String>>
remove_entries(t, key) ==
    LET k == make_ascii_lowercase(key)
    IN  IF k \in DOMAIN t.comments
        THEN [tag |-> [t EXCEPT !.comments = map_remove(@, k)],
              some |-> TRUE, vals |-> t.comments[k]]
        ELSE [tag |-> t, some |-> FALSE, vals |-> <<>>]

\* Tag::set_vendor
set_vendor(t, new_vendor) == [t EXCEPT !.vendor = new_vendor]

\* Vec::remove(index): the vector without its element at index
vec_remove(v, index) == SubSeq(v, 1, index - 1) \o SubSeq(v, index + 1, Len(v))

\* the index the scan of remove_picture_type ends with: the last entry that
\* decodes to a picture of the type, or the first index when none does
index_to_remove(pictures, picture_type) ==
    LET Matches(decoded) ==
            decoded.ok /\ decoded.pic.picture_type = picture_type
        Last(hits) ==
            IF hits = {} THEN 1 ELSE CHOOSE i \in hits : \A j \in hits : j <= i
    IN  Last({i \in 1..Len(pictures) : Matches(from_base64(pictures[i]))})

\* Tag::remove_picture_type: the tag afterwards and the Result<Option<Picture>>
\* (res: OkNone, OkSome, Err, or Panic when Vec::remove is out of bounds)
remove_picture_type(t, picture_type) ==
    LET \* pictures.remove(index) and the decoding of what it returns
        Removed(idx, decoded) ==
            [tag |-> [t EXCEPT !.comments[KeyPictureLower] = vec_remove(@, idx)],
             res |-> IF decoded.ok THEN "OkSome" ELSE "Err",
             err |-> decoded.err,
             pic |-> decoded.pic]
        Remove(pictures, idx) ==
            IF idx > Len(pictures)
            THEN [tag |-> t, res |-> "Panic", err |-> "", pic |-> NoPicture]
            ELSE Removed(idx, from_base64(pictures[idx]))
    IN  IF KeyPictureLower \notin DOMAIN t.comments
        THEN [tag |-> t, res |-> "OkNone", err |-> "", pic |-> NoPicture]
        ELSE Remove(t.comments[KeyPictureLower],
                    index_to_remove(t.comments[KeyPictureLower], picture_type))

\* Tag::add_picture: the tag afterwards and the Result<()>
add_picture(t, picture) ==
    LET Add(removed) ==
            IF removed.res \in {"Err", "Panic"}
            THEN [tag |-> removed.tag, res |-> removed.res, err |-> removed.err]
            ELSE [tag |-> add_one(removed.tag, KeyPictureUpper, to_base64(picture)),
                  res |-> "Ok", err |-> ""]
    IN  Add(remove_picture_type(t, picture.picture_type))

\* the decoded pictures of a value sequence, undecodable values skipped
RECURSIVE decode_all(_)
decode_all(values) ==
    IF values = <<>> THEN <<>>
    ELSE LET Keep(d) == IF d.ok THEN <<d.pic>> ELSE <<>>
         IN  Keep(from_base64(Head(values))) \o decode_all(Tail(values))

\* Tag::pictures
pictures_of(t) ==
    IF KeyPictureLower \notin DOMAIN t.comments THEN <<>>
    ELSE decode_all(t.comments[KeyPictureLower])

\* Tag::get_picture_type: the first decodable picture of the type
get_picture_type(t, picture_type) ==
    LET First(all, hits) ==
            IF hits = {} THEN [some |-> FALSE, pic |-> NoPicture]
            ELSE [some |-> TRUE,
                  pic |-> all[CHOOSE i \in hits : \A j \in hits : i <= j]]
        Scan(all) ==
            First(all, {i \in 1..Len(all) : all[i].picture_type = picture_type})
    IN  Scan(pictures_of(t))

(***************************************************************************)
(* Comment header codec (lib.rs: to_packet_data, the body of read_from).   *)
(***************************************************************************)

\* the orders in which iterating a HashMap may visit its keys: the order is
\* unspecified, so every permutation of the keys is possible
KeyOrders(comments) ==
    LET keys == DOMAIN comments
        n == Cardinality(keys)
    IN  {o \in [1..n -> keys] : \A i, j \in 1..n : o[i] = o[j] => i = j}

\* format!("{tag}={value}") for every value of one key, in order
format_values(key, values) ==
    [i \in 1..Len(values) |-> key \o <<61>> \o values[i]]

\* formatted_tags of to_packet_data, the keys visited in the given order
RECURSIVE formatted_tags(_, _)
formatted_tags(comments, order) ==
    IF order = <<>> THEN <<>>
    ELSE format_values(Head(order), comments[Head(order)])
             \o formatted_tags(comments, Tail(order))

\* the length-prefixed entries written by the last loop of to_packet_data
RECURSIVE encode_entries(_)
encode_entries(entries) ==
    IF entries = <<>> THEN <<>>
    ELSE to_le_bytes(Len(Head(entries))) \o Head(entries)
             \o encode_entries(Tail(entries))

\* Tag::to_packet_data with the map iterated in the given order (TooBigError
\* needs more than u32::MAX bytes or entries, which no tag of the model has)
to_packet_data(t, order) ==
    LET Output(tags) ==
            OpusTags
                \o to_le_bytes(Len(t.vendor)) \o t.vendor
                \o to_le_bytes(Len(tags))
                \o encode_entries(tags)
    IN  Output(formatted_tags(t.comments, order))

\* the result of a failed read_from: no Tag, the error kind, and for
\* MalformedComment the offending comment
ReadErr(kind, text) == [kind |-> kind, tag |-> TagDefault, text |-> text]

\* the comment loop of read_from: count comments left to read at offset pos
\* of data, the pairs read so far in comments
RECURSIVE read_comments(_, _, _, _, _)
read_comments(data, pos, count, vendor, comments) ==
    IF count = 0
    THEN [kind |-> "Ok", tag |-> new(vendor, comments), text |-> <<>>]
    ELSE IF Len(data) < pos + 4 THEN ReadErr("DataError", <<>>)
    ELSE LET comment_length == from_le_bytes(SubSeq(data, pos + 1, pos + 4))
             buffer == SubSeq(data, pos + 5, pos + 4 + comment_length)
             eq == find_eq(buffer)
         IN  IF Len(data) < pos + 4 + comment_length
             THEN ReadErr("DataError", <<>>)
             ELSE IF ~from_utf8_ok(buffer) THEN ReadErr("UTFError", buffer)
             ELSE IF eq = 0 THEN ReadErr("MalformedComment", buffer)
             ELSE read_comments(
                      data, pos + 4 + comment_length, count - 1, vendor,
                      Append(comments,
                             <<SubSeq(buffer, 1, eq - 1),
                               SubSeq(buffer, eq + 1, Len(buffer))>>))

\* read_from from the comment header packet on: the cursor skips 8 bytes
\* without looking at them, then reads the vendor and the comments
read_header(data) ==
    IF Len(data) < 12 THEN ReadErr("DataError", <<>>)
    ELSE LET vendor_length == from_le_bytes(SubSeq(data, 9, 12))
             vendor == SubSeq(data, 13, 12 + vendor_length)
             p == 12 + vendor_length
         IN  IF Len(data) < p THEN ReadErr("DataError", <<>>)
             ELSE IF ~from_utf8_ok(vendor) THEN ReadErr("UTFError", vendor)
             ELSE IF Len(data) < p + 4 THEN ReadErr("DataError", <<>>)
             ELSE read_comments(data, p + 4,
                                from_le_bytes(SubSeq(data, p + 1, p + 4)),
                                vendor, <<>>)

(***************************************************************************)
(* The container: the packets an ogg PacketReader yields for the stream,   *)
(* each with its data, stream serial, granule position of its page and its *)
(* last-in-page / last-in-stream flags, and the number of bytes the stream *)
(* holds after its last page.                                              *)
(***************************************************************************)

\* Tag::read_from
read_from(f) ==
    IF Len(f.packets) < 1 THEN ReadErr("MissingPacket", <<>>)
    ELSE IF ~starts_with(f.packets[1].data, OpusHead) THEN ReadErr("NotOpus", <<>>)
    ELSE IF Len(f.packets) < 2 THEN ReadErr("MissingPacket", <<>>)
    ELSE read_header(f.packets[2].data)

\* mutant: a packet inside a page is written as the last of its page
get_end_info_no_normal(packet) ==
    IF packet.last_in_stream THEN "EndStream" ELSE "EndPage"

\* get_end_info
get_end_info(packet) ==
    IF packet.last_in_stream THEN "EndStream"
    ELSE IF packet.last_in_page THEN "EndPage"
    ELSE "NormalPacket"

\* PacketWriter::write_packet as write_to uses it: the staged stream gets one
\* more packet with the data, serial, end info and granule position given
write_packet(staged, data, serial, inf, absgp) ==
    Append(staged, [data |-> data, serial |-> serial, inf |-> inf, absgp |-> absgp])

\* the first packet block of write_to (lines 282-290)
write_first(staged, first_packet) ==
    write_packet(staged, first_packet.data, first_packet.serial,
                 get_end_info(first_packet), first_packet.absgp)

\* the comment header block of write_to (lines 293-302)
write_second(staged, comment_header_packet, new_pack_data) ==
    write_packet(staged, new_pack_data, comment_header_packet.serial,
                 "EndPage", comment_header_packet.absgp)

\* the body of the while loop of write_to (lines 304-309)
write_rest(staged, packet) ==
    write_packet(staged, packet.data, packet.serial,
                 get_end_info(packet), packet.absgp)

\* the packet a PacketReader yields for a packet written with write_packet
packet_of(w) ==
    [data |-> w.data, serial |-> w.serial, absgp |-> w.absgp,
     last_in_page |-> w.inf \in {"EndPage", "EndStream"},
     last_in_stream |-> w.inf = "EndStream"]

\* the bytes of an Ogg stream of the packets: per page a 27-byte header, per
\* packet one lacing value for every 255 bytes begun, and the data
RECURSIVE stream_len(_)
stream_len(packets) ==
    IF packets = <<>> THEN 0
    ELSE LET p == Head(packets)
         IN  Len(p.data) + (Len(p.data) \div 255) + 1
                 + (IF p.last_in_page \/ Len(packets) = 1 THEN 27 ELSE 0)
                 + stream_len(Tail(packets))

\* seek both to 0 and std::io::copy(&mut cursor, &mut f_in): the staged bytes
\* overwrite the target from its start; the target is not truncated, so what
\* it held past the length of the staged bytes stays
copy_over(f, staged) ==
    LET packets == [i \in 1..Len(staged) |-> packet_of(staged[i])]
        old_len == stream_len(f.packets) + f.stale
        new_len == stream_len(packets)
    IN  [packets |-> packets,
         stale |-> IF old_len > new_len THEN old_len - new_len ELSE 0]

(***************************************************************************)
(* Inputs.                                                                 *)
(***************************************************************************)

\* the sequences over S of length at most n
SeqsUpTo(S, n) == UNION {[1..k -> S] : k \in 0..n}

\* keys: "A", "a", "a=b", and the non-ASCII case pair U+00C9, U+00E9
KeyUpperA == <<65>>
KeyLowerA == <<97>>
KeyWithEq == <<97, 61, 98>>
KeyUpperEacute == <<195, 137>>
KeyLowerEacute == <<195, 169>>
\* values: "x", "X", and "!!", which is not base64
ValueX == <<120>>
ValueUpperX == <<88>>
ValueNotBase64 == <<33, 33>>
\* vendors: "" and "v"
Vendors == {<<>>, <<118>>}

\* pictures: two of type CoverFront (3) and one of type CoverBack (4)
PictureA == [picture_type |-> 3, mime_type |-> <<105>>, description |-> <<>>, data |-> <<1>>]
PictureB == [picture_type |-> 3, mime_type |-> <<105>>, description |-> <<>>, data |-> <<2>>]
PictureC == [picture_type |-> 4, mime_type |-> <<105>>, description |-> <<>>, data |-> <<1>>]
Pictures == {PictureA, PictureB, PictureC}
PictureTypes == {3, 4}

\* the (key, value) arguments of add_one and the pairs of new
InputPairs ==
    ({KeyUpperA, KeyLowerA} \X {ValueX, ValueUpperX})
    \cup ({KeyUpperEacute, KeyWithEq} \X {ValueX})
    \cup ({KeyPictureLower} \X
            ({to_base64(p) : p \in Pictures} \cup {ValueNotBase64}))

\* the key arguments of add_many, get and remove_entries
AddManyKeys == {KeyUpperA, KeyPictureLower}
LookupKeys == {kv[1] : kv \in InputPairs} \cup {KeyLowerEacute}
ValuesOf(key) == {kv[2] : kv \in {x \in InputPairs : x[1] = key}}

\* the number of values a tag holds
RECURSIVE CountValues(_, _)
CountValues(comments, keys) ==
    IF keys = {} THEN 0
    ELSE LET k == CHOOSE x \in keys : TRUE
         IN  Len(comments[k]) + CountValues(comments, keys \ {k})

Entries(t) == CountValues(t.comments, DOMAIN t.comments)

\* a stream with no packet
EmptyFile == [packets |-> <<>>, stale |-> 0]

\* the record of an operation: every field has one type in every state
Called(op, res) ==
    [op |-> op, res |-> res, err |-> "", key |-> <<>>, vals |-> <<>>, ptype |-> 0,
     pairs |-> <<>>, pic |-> NoPicture, pics |-> <<>>, text |-> <<>>]

(***************************************************************************)
(* The tag store: the operations of Tag on one object.                     *)
(***************************************************************************)

\* before the Tag is constructed (tag holds a placeholder until then)
Init ==
    /\ tag = TagDefault
    /\ last = Called("", "")
    /\ file = EmptyFile
    /\ rd = 0
    /\ out = <<>>
    /\ pc = "unbuilt"

\* the object is constructed by Tag::default() ...
Default ==
    /\ pc = "unbuilt"
    /\ tag' = TagDefault
    /\ last' = Called("default", "")
    /\ pc' = "idle"
    /\ UNCHANGED <<file, rd, out>>

\* ... or by Tag::new
New ==
    /\ pc = "unbuilt"
    /\ \E vendor \in Vendors, pairs \in SeqsUpTo(InputPairs, MaxNewPairs) :
        /\ tag' = new(vendor, pairs)
        /\ last' = [Called("new", "") EXCEPT !.pairs = pairs]
    /\ pc' = "idle"
    /\ UNCHANGED <<file, rd, out>>

AddOne ==
    /\ pc = "idle"
    /\ Entries(tag) < MaxEntries
    /\ \E kv \in InputPairs :
        /\ tag' = add_one(tag, kv[1], kv[2])
        /\ last' = [Called("add_one", "") EXCEPT !.key = kv[1], !.vals = <<kv[2]>>]
    /\ UNCHANGED <<file, rd, out, pc>>

AddMany ==
    /\ pc = "idle"
    /\ \E key \in AddManyKeys :
       \E values \in SeqsUpTo(ValuesOf(key), MaxAddMany) :
        /\ Entries(tag) + Len(values) <= MaxEntries
        /\ tag' = add_many(tag, key, values)
        /\ last' = [Called("add_many", "") EXCEPT !.key = key, !.vals = values]
    /\ UNCHANGED <<file, rd, out, pc>>

Get ==
    /\ pc = "idle"
    /\ \E key \in LookupKeys :
        \E r \in {get(tag, key)} :
            last' = [Called("get", IF r.some THEN "Some" ELSE "None")
                        EXCEPT !.key = key, !.vals = r.vals]
    /\ UNCHANGED <<tag, file, rd, out, pc>>

RemoveEntries ==
    /\ pc = "idle"
    /\ \E key \in LookupKeys :
        \E r \in {remove_entries(tag, key)} :
            /\ tag' = r.tag
            /\ last' = [Called("remove_entries", IF r.some THEN "Some" ELSE "None")
                            EXCEPT !.key = key, !.vals = r.vals]
    /\ UNCHANGED <<file, rd, out, pc>>

SetVendor ==
    /\ pc = "idle"
    /\ \E vendor \in Vendors :
        /\ tag' = set_vendor(tag, vendor)
        /\ last' = Called("set_vendor", "")
    /\ UNCHANGED <<file, rd, out, pc>>

AddPicture ==
    /\ pc = "idle"
    /\ \E picture \in Pictures :
        \E r \in {add_picture(tag, picture)} :
            /\ Entries(r.tag) <= MaxEntries
            /\ tag' = r.tag
            /\ last' = [Called("add_picture", r.res) EXCEPT !.pic = picture, !.err = r.err]
            /\ pc' = IF r.res = "Panic" THEN "panicked" ELSE pc
    /\ UNCHANGED <<file, rd, out>>

RemovePictureType ==
    /\ pc = "idle"
    /\ \E picture_type \in PictureTypes :
        \E r \in {remove_picture_type(tag, picture_type)} :
            /\ tag' = r.tag
            /\ last' = [Called("remove_picture_type", r.res)
                            EXCEPT !.ptype = picture_type, !.pic = r.pic, !.err = r.err]
            /\ pc' = IF r.res = "Panic" THEN "panicked" ELSE pc
    /\ UNCHANGED <<file, rd, out>>

GetPictureType ==
    /\ pc = "idle"
    /\ \E picture_type \in PictureTypes :
        \E r \in {get_picture_type(tag, picture_type)} :
            last' = [Called("get_picture_type", IF r.some THEN "Some" ELSE "None")
                        EXCEPT !.ptype = picture_type, !.pic = r.pic]
    /\ UNCHANGED <<tag, file, rd, out, pc>>

GetPictures ==
    /\ pc = "idle"
    /\ last' = [Called("pictures", "") EXCEPT !.pics = pictures_of(tag)]
    /\ UNCHANGED <<tag, file, rd, out, pc>>

Next ==
    \/ Default
    \/ New
    \/ AddOne
    \/ AddMany
    \/ Get
    \/ RemoveEntries
    \/ SetVendor
    \/ AddPicture
    \/ RemovePictureType
    \/ GetPictureType
    \/ GetPictures

Spec == Init /\ [][Next]_vars

(***************************************************************************)
(* read_from over generated containers.                                    *)
(***************************************************************************)

\* packet data: an identification header ("OpusHead" and one more byte) and
\* data that does not start with "OpusHead" ("Xy")
HeadData == OpusHead \o <<1>>
OtherData == <<88, 121>>

\* a packet as the PacketReader yields it; a packet that is last in its
\* stream is last in its page
Packet(data, serial, absgp, inf) ==
    [data |-> data, serial |-> serial, absgp |-> absgp,
     last_in_page |-> inf \in {"EndPage", "EndStream"},
     last_in_stream |-> inf = "EndStream"]

\* the 8 bytes a comment header starts with: "OpusTags" or "OpusTagz"
Magics == {OpusTags, <<79, 112, 117, 115, 84, 97, 103, 122>>}

\* vendor bytes: "", "v" and a byte that is not UTF-8
HeaderVendors == {<<>>, <<118>>, <<255>>}

\* comment entries: "a=x", "A=x=y", "=", "ab", "c", and two that are not
\* UTF-8, one without and one with a '='
HeaderEntries ==
    { <<97, 61, 120>>, <<65, 61, 120, 61, 121>>, <<61>>,
      <<97, 98>>, <<99>>, <<255>>, <<255, 61>> }

\* the bytes of a comment header that declares count entries
HeaderBytes(magic, vendor, count, entries) ==
    magic \o to_le_bytes(Len(vendor)) \o vendor
          \o to_le_bytes(count) \o encode_entries(entries)

\* headers whose entry count is the number of entries present, or one more
\* (the data ends early), and a header cut inside its vendor length
Headers ==
    { HeaderBytes(m, v, Len(es) + extra, es) :
        m \in Magics, v \in HeaderVendors, extra \in {0, 1},
        es \in SeqsUpTo(HeaderEntries, MaxHeaderEntries) }
    \cup { OpusTags \o <<1, 0>> }

\* streams of no packet, of one packet, and of two packets, the second a
\* comment header
ReadFiles ==
    { [packets |-> ps, stale |-> 0] :
        ps \in { <<>> }
            \cup { <<Packet(d, 1, 0, "EndPage")>> : d \in {HeadData, OtherData} }
            \cup { <<Packet(d, 1, 0, "EndPage"), Packet(h, 1, 0, "EndPage")>> :
                     d \in {HeadData, OtherData}, h \in Headers } }

InitRead ==
    /\ tag = TagDefault
    /\ last = Called("", "")
    /\ file \in ReadFiles
    /\ rd = 0
    /\ out = <<>>
    /\ pc = "unbuilt"

\* Tag::read_from(file): a Tag is constructed when it returns Ok
ReadFrom ==
    /\ pc = "unbuilt"
    /\ \E r \in {read_from(file)} :
        /\ tag' = r.tag
        /\ last' = [Called("read_from", r.kind) EXCEPT !.text = r.text]
        /\ pc' = IF r.kind = "Ok" THEN "idle" ELSE "failed"
    /\ UNCHANGED <<file, rd, out>>

NextRead == ReadFrom

SpecRead == InitRead /\ [][NextRead]_vars

(***************************************************************************)
(* write_to over generated containers, one step per packet.                *)
(***************************************************************************)

\* a comment header of 36 bytes, longer than the encoding of either Tag
\* written: a vendor of 20 bytes and no entry
LongHeaderData == HeaderBytes(OpusTags, [i \in 1..20 |-> 118], 0, <<>>)

\* packets that differ in every field write_to hands on, and the long comment
\* header on a page of its own
SamplePackets ==
    { Packet(d, m[1], m[2], m[3]) :
        d \in {HeadData, OtherData},
        m \in { <<1, 0, "NormalPacket">>, <<1, 7, "EndPage">>,
                <<2, 0, "EndPage">>, <<2, 7, "EndStream">> } }
    \cup {Packet(LongHeaderData, 1, 0, "EndPage")}

WriteFiles ==
    { [packets |-> ps, stale |-> 0] : ps \in SeqsUpTo(SamplePackets, MaxPackets) }

\* the Tag written: the default one, and one of two keys and vendor "v"
WriteTags ==
    { TagDefault,
      new(<<118>>, << <<KeyUpperA, ValueX>>, <<KeyUpperEacute, ValueX>> >>) }

InitWrite ==
    /\ tag \in WriteTags
    /\ last = Called("", "")
    /\ file \in WriteFiles
    /\ rd = 0
    /\ out = <<>>
    /\ pc = "write_first"

\* write_to fails: nothing has been copied to the target
WriteFails(kind) ==
    /\ last' = Called("write_to", kind)
    /\ pc' = "failed"
    /\ UNCHANGED <<tag, file, rd, out>>

\* lines 282-290: the first packet is read and written as it is
WriteFirst ==
    /\ pc = "write_first"
    /\ IF rd >= Len(file.packets)
       THEN WriteFails("MissingPacket")
       ELSE /\ out' = write_first(out, file.packets[rd + 1])
            /\ rd' = rd + 1
            /\ pc' = "write_second"
            /\ UNCHANGED <<tag, last, file>>

\* lines 293-302: the second packet is read and the encoded Tag written
WriteSecond ==
    /\ pc = "write_second"
    /\ IF rd >= Len(file.packets)
       THEN WriteFails("MissingPacket")
       ELSE /\ \E order \in KeyOrders(tag.comments) :
                out' = write_second(out, file.packets[rd + 1],
                                    to_packet_data(tag, order))
            /\ rd' = rd + 1
            /\ pc' = "write_rest"
            /\ UNCHANGED <<tag, last, file>>

\* lines 304-309: one turn of the loop, or its end when the reader has no
\* packet left
WriteRest ==
    /\ pc = "write_rest"
    /\ IF rd >= Len(file.packets)
       THEN /\ pc' = "write_copy"
            /\ UNCHANGED <<tag, last, file, rd, out>>
       ELSE /\ out' = write_rest(out, file.packets[rd + 1])
            /\ rd' = rd + 1
            /\ UNCHANGED <<tag, last, file, pc>>

\* lines 312-317: the cursor is copied over the target from offset 0
WriteCopy ==
    /\ pc = "write_copy"
    /\ file' = copy_over(file, out)
    /\ last' = Called("write_to", "Ok")
    /\ pc' = "done"
    /\ UNCHANGED <<tag, rd, out>>

NextWrite ==
    \/ WriteFirst
    \/ WriteSecond
    \/ WriteRest
    \/ WriteCopy

SpecWrite == InitWrite /\ [][NextWrite]_vars

(***************************************************************************)
(* The picture codec: a Picture is encoded by to_bytes or to_base64 and    *)
(* the result decoded by from_bytes or from_base64.                        *)
(***************************************************************************)

\* the codes of PictureType: Other (0) to PublisherLogo (20)
PictureTypeCodes == 0..20

\* the concatenation of a sequence of byte strings
RECURSIVE Flatten(_)
Flatten(ss) == IF ss = <<>> THEN <<>> ELSE Head(ss) \o Flatten(Tail(ss))

\* Strings (valid UTF-8) of at most n characters out of chars
StringsUpTo(chars, n) == {Flatten(cs) : cs \in SeqsUpTo(chars, n)}

\* mime types over "i" and U+00E9, descriptions over "d", data over 00 and FF
MimeTypes == StringsUpTo({<<105>>, <<195, 169>>}, MaxPictureField)
Descriptions == StringsUpTo({<<100>>}, MaxPictureField)
PictureDatas == SeqsUpTo({0, 255}, MaxPictureField)

CodecPictures ==
    [picture_type : PictureTypeCodes, mime_type : MimeTypes,
     description : Descriptions, data : PictureDatas]

\* last.pic is the picture, last.text its encoding, last.pics what was decoded
InitPicture ==
    /\ tag = TagDefault
    /\ \E p \in CodecPictures : last = [Called("", "") EXCEPT !.pic = p]
    /\ file = EmptyFile
    /\ rd = 0
    /\ out = <<>>
    /\ pc = "picture"

ToBytes ==
    /\ pc = "picture"
    /\ last' = [last EXCEPT !.op = "to_bytes", !.res = "Ok",
                            !.text = to_bytes(last.pic)]
    /\ pc' = "bytes"
    /\ UNCHANGED <<tag, file, rd, out>>

ToBase64 ==
    /\ pc = "picture"
    /\ last' = [last EXCEPT !.op = "to_base64", !.res = "Ok",
                            !.text = to_base64(last.pic)]
    /\ pc' = "base64"
    /\ UNCHANGED <<tag, file, rd, out>>

\* the decoding of an encoded picture is recorded
Decoded(op, d) ==
    /\ last' = [last EXCEPT !.op = op,
                            !.res = IF d.ok THEN "Ok" ELSE "Err",
                            !.err = d.err,
                            !.pics = IF d.ok THEN <<d.pic>> ELSE <<>>]
    /\ pc' = "decoded"
    /\ UNCHANGED <<tag, file, rd, out>>

FromBytes ==
    /\ pc = "bytes"
    /\ \E d \in {from_bytes(last.text)} : Decoded("from_bytes", d)

FromBase64 ==
    /\ pc = "base64"
    /\ \E d \in {from_base64(last.text)} : Decoded("from_base64", d)

NextPicture ==
    \/ ToBytes
    \/ ToBase64
    \/ FromBytes
    \/ FromBase64

SpecPicture == InitPicture /\ [][NextPicture]_vars

(***************************************************************************)
(* Properties.                                                             *)
(***************************************************************************)

\* the values a tag holds under a stored key, none when the key is absent
ValuesUnder(t, k) == IF k \in DOMAIN t.comments THEN t.comments[k] ELSE <<>>

\* the picture values of a tag
PictureValues(t) == ValuesUnder(t, KeyPictureLower)

\* C1: decoding the comment header that to_packet_data produces for the Tag,
\* whatever order the map is iterated in, succeeds and yields the same vendor
\* and under every key the same values in the same order.
C1_HeaderRoundTrip ==
    pc = "idle" =>
        \A order \in KeyOrders(tag.comments) :
            \E r \in {read_header(to_packet_data(tag, order))} :
                /\ r.kind = "Ok"
                /\ r.tag.vendor = tag.vendor
                /\ \A k \in (DOMAIN tag.comments) \cup (DOMAIN r.tag.comments) :
                       ValuesUnder(r.tag, k) = ValuesUnder(tag, k)

\* C3: no key of the Tag is present with an empty value sequence.
C3_NoKeyWithoutValues ==
    \A k \in DOMAIN tag.comments : tag.comments[k] # <<>>

\* at most one of the pictures is of each picture type
OnePicturePerType(pics) ==
    \A i, j \in 1..Len(pics) :
        pics[i].picture_type = pics[j].picture_type => i = j

\* C4: after add_picture has returned Ok, the values under
\* metadata_block_picture hold at most one decodable picture per type.
C4_OnePicturePerTypeAfterAdd ==
    (last.op = "add_picture" /\ last.res = "Ok") =>
        OnePicturePerType(pictures_of(tag))

\* C5: when add_picture(P2) follows add_picture(P1) of the same picture type
\* (both Ok), get_picture_type of that type returns P2 and pictures() holds
\* exactly one picture of the type.
C5_SecondPictureReplacesFirst ==
    [][ ( /\ last.op = "add_picture" /\ last.res = "Ok"
          /\ last'.op = "add_picture" /\ last'.res = "Ok"
          /\ last.pic.picture_type = last'.pic.picture_type )
        => /\ get_picture_type(tag', last'.pic.picture_type)
                  = [some |-> TRUE, pic |-> last'.pic]
           /\ Cardinality({i \in 1..Len(pictures_of(tag')) :
                  pictures_of(tag')[i].picture_type = last'.pic.picture_type}) = 1
      ]_vars

\* the lowercase form of a string: ASCII letters, and the letters U+00C0 to
\* U+00DE (but U+00D7), whose UTF-8 form is 195 followed by 128..158
Lowercase(s) ==
    [i \in 1..Len(s) |->
        IF s[i] \in 65..90 THEN s[i] + 32
        ELSE IF i > 1 /\ s[i - 1] = 195 /\ s[i] \in 128..158 /\ s[i] # 151
             THEN s[i] + 32
        ELSE s[i]]

\* two spellings of one key that differ only in the case of letters
CaseVariants(k1, k2) == Lowercase(k1) = Lowercase(k2)

\* two spellings of one key that differ only in the case of ASCII letters
AsciiCaseVariants(k1, k2) ==
    /\ Len(k1) = Len(k2)
    /\ \A i \in 1..Len(k1) :
           \/ k1[i] = k2[i]
           \/ \E c \in 65..90 : {k1[i], k2[i]} = {c, c + 32}

\* the value is in the sequence
Contains(vals, v) == \E i \in 1..Len(vals) : vals[i] = v

\* the (key, value) pairs the last call inserted
Inserted ==
    IF last.op = "new" THEN {last.pairs[i] : i \in 1..Len(last.pairs)}
    ELSE IF last.op \in {"add_one", "add_many"}
         THEN {<<last.key, last.vals[i]>> : i \in 1..Len(last.vals)}
    ELSE {}

\* get and remove_entries under the spelling k2 find the value v
FoundUnder(k2, v) ==
    /\ get(tag, k2).some
    /\ Contains(get(tag, k2).vals, v)
    /\ remove_entries(tag, k2).some
    /\ Contains(remove_entries(tag, k2).vals, v)
    /\ ~get(remove_entries(tag, k2).tag, k2).some

\* C6 as stated: after an insert under k1, get and remove_entries under any
\* case variant k2 of k1 find the value, and every stored key is lowercase.
C6_KeysCaseInsensitive ==
    pc = "idle" =>
        /\ \A kv \in Inserted : \A k2 \in LookupKeys :
               CaseVariants(kv[1], k2) => FoundUnder(k2, kv[2])
        /\ \A k \in DOMAIN tag.comments : Lowercase(k) = k

\* C6 as amended: the same for variants in the case of ASCII letters only; a
\* stored key holds no ASCII uppercase letter.
C6_KeysAsciiCaseInsensitive ==
    pc = "idle" =>
        /\ \A kv \in Inserted : \A k2 \in LookupKeys :
               AsciiCaseVariants(kv[1], k2) => FoundUnder(k2, kv[2])
        /\ \A k \in DOMAIN tag.comments : \A i \in 1..Len(k) : k[i] \notin 65..90

\* C6 witness: "X" was added under "A", and is found verbatim under "a"
C6_Witness ==
    /\ last.op = "add_one" /\ last.key = KeyUpperA /\ last.vals = <<ValueUpperX>>
    /\ get(tag, KeyLowerA).some
    /\ Contains(get(tag, KeyLowerA).vals, ValueUpperX)
    /\ Len(get(tag, KeyLowerA).vals) = 2

\* the values that decode to a picture of another type, in order
RECURSIVE OfOtherTypes(_, _)
OfOtherTypes(values, picture_type) ==
    IF values = <<>> THEN <<>>
    ELSE (IF /\ from_base64(Head(values)).ok
             /\ from_base64(Head(values)).pic.picture_type # picture_type
          THEN <<Head(values)>> ELSE <<>>)
             \o OfOtherTypes(Tail(values), picture_type)

\* C10: a call of remove_picture_type(t) returns, when it returns a picture,
\* one of type t, and leaves the pictures of every other type in place.
C10_RemovesOnlyTheType ==
    [][ last'.op = "remove_picture_type"
        => /\ last'.res = "OkSome" => last'.pic.picture_type = last'.ptype
           /\ OfOtherTypes(PictureValues(tag'), last'.ptype)
                  = OfOtherTypes(PictureValues(tag), last'.ptype)
      ]_vars

\* the packet written has the framing of the packet read
SameFraming(w, packet) ==
    /\ w.serial = packet.serial
    /\ w.absgp = packet.absgp
    /\ (w.inf \in {"EndPage", "EndStream"}) = packet.last_in_page
    /\ (w.inf = "EndStream") = packet.last_in_stream

\* C2: while write_to runs, every packet written but the second has the bytes,
\* serial, granule position and end-of-page / end-of-stream flags of the source
\* packet at its position; the second has the bytes of the encoded Tag; and
\* when the source is exhausted as many packets are written as it holds.
C2_PacketsPassThrough ==
    pc \in {"write_second", "write_rest", "write_copy"} =>
        /\ Len(out) <= Len(file.packets)
        /\ pc = "write_copy" => Len(out) = Len(file.packets)
        /\ \A i \in 1..Len(out) :
               IF i = 2
               THEN \E order \in KeyOrders(tag.comments) :
                        out[i].data = to_packet_data(tag, order)
               ELSE /\ out[i].data = file.packets[i].data
                    /\ SameFraming(out[i], file.packets[i])

\* C2 witness: a source of three packets is exhausted; its third packet does
\* not end a page and its first ends the stream of another serial
C2_Witness ==
    /\ pc = "write_copy"
    /\ Len(file.packets) = 3
    /\ ~file.packets[3].last_in_page
    /\ file.packets[1].last_in_stream
    /\ file.packets[1].serial # file.packets[3].serial
    /\ DOMAIN tag.comments # {}

\* C7: when the first packet of the target does not start with "OpusHead",
\* write_to fails with NotOpus and goes no further.
C7_WriteToRequiresOpusHead ==
    (Len(file.packets) >= 1 /\ ~starts_with(file.packets[1].data, OpusHead)) =>
        \/ pc = "write_first"
        \/ pc = "failed" /\ last.res = "NotOpus"

\* read_from got as far as decoding the comment header of the stream
HeaderRead ==
    /\ last.op = "read_from"
    /\ Len(file.packets) >= 2
    /\ starts_with(file.packets[1].data, OpusHead)

\* C8: when the second packet does not start with "OpusTags", read_from fails.
C8_MagicVerified ==
    (HeaderRead /\ ~starts_with(file.packets[2].data, OpusTags)) =>
        last.res # "Ok"

\* The wire form of a comment header: 8 bytes of magic, a length-prefixed
\* vendor, an entry count and as many length-prefixed entries.
WireVendorEnd(data) ==
    IF Len(data) < 12 THEN 0
    ELSE 12 + from_le_bytes(SubSeq(data, 9, 12))

WireVendor(data) == SubSeq(data, 13, WireVendorEnd(data))

\* the entries of the header that are present in full, at most count of them
RECURSIVE WireEntriesFrom(_, _, _)
WireEntriesFrom(data, pos, count) ==
    IF count = 0 \/ Len(data) < pos + 4 THEN <<>>
    ELSE IF Len(data) < pos + 4 + from_le_bytes(SubSeq(data, pos + 1, pos + 4))
         THEN <<>>
    ELSE <<SubSeq(data, pos + 5,
                  pos + 4 + from_le_bytes(SubSeq(data, pos + 1, pos + 4)))>>
         \o WireEntriesFrom(
                data, pos + 4 + from_le_bytes(SubSeq(data, pos + 1, pos + 4)),
                count - 1)

WireEntries(data) ==
    IF WireVendorEnd(data) = 0 \/ Len(data) < WireVendorEnd(data) + 4 THEN <<>>
    ELSE WireEntriesFrom(
             data, WireVendorEnd(data) + 4,
             from_le_bytes(SubSeq(data, WireVendorEnd(data) + 1,
                                  WireVendorEnd(data) + 4)))

\* the entry holds no '='
NoEq(entry) == \A i \in 1..Len(entry) : entry[i] # 61

\* the entries without '=' among the first n
WithoutEq(entries, n) == {i \in 1..n : NoEq(entries[i])}

\* C9 as stated: when an entry of the header holds no '=', read_from fails with
\* MalformedComment carrying an entry that holds no '=', and returns no Tag.
C9_MalformedEntryReported ==
    HeaderRead =>
        \E es \in {WireEntries(file.packets[2].data)} :
            WithoutEq(es, Len(es)) # {} =>
                /\ last.res = "MalformedComment"
                /\ \E i \in WithoutEq(es, Len(es)) : last.text = es[i]

\* the entry is split at its first '=': the key before it holds no '=', and
\* the value after it is among the values of the key
SplitAtFirstEq(t, entry) ==
    \E p \in 1..Len(entry) :
        /\ entry[p] = 61
        /\ NoEq(SubSeq(entry, 1, p - 1))
        /\ get(t, SubSeq(entry, 1, p - 1)).some
        /\ Contains(get(t, SubSeq(entry, 1, p - 1)).vals,
                    SubSeq(entry, p + 1, Len(entry)))

\* C9 as amended: when an entry of the header holds no '=', read_from returns
\* no Tag; the error is MalformedComment carrying the first such entry when the
\* vendor and the entries up to it are valid UTF-8, and whenever it is
\* MalformedComment it carries that entry. When read_from returns a Tag, every
\* entry was split at its first '='.
C9_DecodeAllOrNothing ==
    HeaderRead =>
        \E es \in {WireEntries(file.packets[2].data)} :
            /\ WithoutEq(es, Len(es)) # {} =>
                   \E f \in WithoutEq(es, Len(es)) :
                       /\ WithoutEq(es, f - 1) = {}
                       /\ last.res # "Ok"
                       /\ last.res = "MalformedComment" => last.text = es[f]
                       /\ ( /\ from_utf8_ok(WireVendor(file.packets[2].data))
                            /\ \A j \in 1..f : from_utf8_ok(es[j]) )
                              => last.res = "MalformedComment"
            /\ last.res = "Ok" =>
                   /\ Entries(tag) = Len(es)
                   /\ \A i \in 1..Len(es) : SplitAtFirstEq(tag, es[i])

\* C9 witness: the second entry, "c", holds no '=' and is the one reported; the
\* first, "A=x=y", is well formed
C9_Witness ==
    /\ HeaderRead
    /\ WireEntries(file.packets[2].data) = << <<65, 61, 120, 61, 121>>, <<99>> >>
    /\ last.res = "MalformedComment"
    /\ last.text = <<99>>
    /\ pc = "failed"

\* C11: remove_picture_type and add_picture never return an error on account
\* of a value under metadata_block_picture that does not decode as a picture
\* (get_picture_type and pictures have no error to return): such values are
\* skipped and the call completes.
C11_ScanSkipsUndecodable ==
    last.op \in {"remove_picture_type", "add_picture"} => last.res # "Err"

\* the 16 bytes after the description of an encoded picture
GeometryOf(p, bytes) ==
    SubSeq(bytes, 12 + Len(p.mime_type) + Len(p.description) + 1,
                  12 + Len(p.mime_type) + Len(p.description) + 16)

\* C12: the bytes to_bytes produces for a picture decode (from_bytes) to a
\* picture with the same picture_type, mime_type, description and data, and
\* the same holds through to_base64 and from_base64; in the bytes the four
\* geometry fields (16 bytes after the description) are zero and the lengths
\* add up.
C12_PictureRoundTrip ==
    /\ pc = "bytes" =>
           /\ Len(last.text)
                  = 32 + Len(last.pic.mime_type) + Len(last.pic.description)
                       + Len(last.pic.data)
           /\ GeometryOf(last.pic, last.text) = [i \in 1..16 |-> 0]
    /\ pc = "decoded" =>
           /\ last.res = "Ok"
           /\ last.pics = <<last.pic>>

\* C12 witness: a picture of the last type, PublisherLogo (20), with a
\* non-ASCII mime type, a description and data holding FF, decoded from bytes
C12_Witness ==
    /\ pc = "decoded"
    /\ last.op = "from_bytes"
    /\ last.pic.picture_type = 20
    /\ last.pic.mime_type = <<195, 169, 105>>
    /\ last.pic.description = <<100>>
    /\ last.pic.data = <<255, 0>>
    /\ last.pics = <<last.pic>>

\* C13: after write_to has returned Ok the target holds the staged container
\* and nothing else: no byte of its earlier content is left past the end of
\* the new one.
C13_TargetEqualsStaged ==
    (pc = "done" /\ last.op = "write_to" /\ last.res = "Ok") =>
        /\ file.packets = [i \in 1..Len(out) |-> packet_of(out[i])]
        /\ file.stale = 0

====
